---- MODULE Spec2Model ----
(***************************************************************************)
(* Resumable species batch download of chirpnet:                          *)
(* ChirpNetDownloader.download_species_data and its helpers               *)
(* (src/chirpnet/data/chirpnet_downloader.py), run repeatedly against one  *)
(* batch folder <list>_y<year>_q<quality>_mp<max_pages>.                   *)
(*                                                                         *)
(* The shared state is the batch folder on disk.  Every step of a run that *)
(* touches the disk, the network or may raise is one action, so that a     *)
(* run can fail or be killed between any two of them.                      *)
(***************************************************************************)
EXTENDS Integers, Sequences, FiniteSets, TLC

\* ---------------------------------------------------------------- bounds
MaxLen == 2      \* longest species list ("Common Name" column)
MaxRuns == 3     \* invocations of download_species_data

\* Common names a species list can hold.  No name is a prefix of another,
\* so a row cut short by a kill (Torn) equals none of them.
Species == {"Robin", "Wren", "Owl"}
Torn == "~torn"
None == "~none"

\* Interpreter processes that may run download_species_data.
Procs == {1, 2}

\* quality values a caller passes: the batch's own quality and a bad one.
\* (Another valid quality selects another batch folder.)
BatchQuality == "A"
QualityInputs == {BatchQuality, "D"}

\* species_list_path: the folder of the file and its name split at the dots.
RedlistPath == [dir |-> "data", file |-> <<"redlist", "csv">>]

\* The arguments of the calls against the batch under observation.
BatchArguments ==
    [species_list_path |-> RedlistPath, recorded_year |-> 2020,
     quality |-> BatchQuality, max_pages |-> 5, downloader_base_path |-> "out"]

VARIABLES
    arguments,          \* per process: the arguments of its current or last call
    download_folder_path, \* per process: the folder computed by _initialize_download_manager
    species_list_csv,   \* rows of the "Common Name" column of the species list file
    list_loadable,      \* whether species_list_path can be read during the current run
    folder,             \* <base>/<batch> exists
    metadata,           \* <base>/<batch>/metadata exists
    list_copy,          \* metadata/<list>.csv exists
    already_downloaded_csv, \* metadata/already_downloaded.csv, see the File* operators
    persisted,          \* per species: completed download_all_recordings_in_queryresult calls
    pc,                 \* per process: position in download_species_data
    species_list,       \* per process: local species_list (line 60, reassigned line 65)
    already_downloaded_species, \* per process: rows read by the filter (line 212)
    idx,                \* per process: position of the for loop (line 72) in species_list
    already_downloaded, \* per process: the dataframe of _update_already_downloaded_metadata
    progress,           \* per process, this run: indices fetched / persisted / appended
    runs,               \* invocations so far
    outcome,            \* per process: how its last run ended
    previous,           \* per process: how the run before the current one ended
    inits,              \* completed writes of the empty already_downloaded.csv (line 178)
    checkpointed,       \* names whose checkpoint append (line 302) has completed
    kill_window,        \* the last kill between a first persist and its append
    interrupted         \* the species the loop was at when a run was killed

vars == <<arguments, download_folder_path, species_list_csv, list_loadable, folder, metadata, list_copy,
          already_downloaded_csv, persisted, pc, species_list,
          already_downloaded_species, idx, already_downloaded, progress, runs,
          outcome, previous, inits, checkpointed, kill_window, interrupted>>

\* ------------------------------------------------------------ sequences
Range(s) == {s[i] : i \in 1..Len(s)}

SeqsUpTo(S, n) == UNION {[1..k -> S] : k \in 0..n}

Prefix(s, k) == SubSeq(s, 1, k)

IsPrefix(s, t) == Len(s) <= Len(t) /\ Prefix(t, Len(s)) = s

Occurrences(x, s) == Cardinality({i \in 1..Len(s) : s[i] = x})

\* ------------------------------------------------- already_downloaded.csv
\* st: "absent" (no file), "empty" (zero bytes: opened for writing, nothing
\* flushed), "tornhdr" (the header line cut short), "ok" (header "Species"
\* and rows).  A row is a species name, or Torn for a last row cut short.
FileAbsent == [st |-> "absent", rows |-> <<>>]
FileEmpty == [st |-> "empty", rows |-> <<>>]
FileTornHeader == [st |-> "tornhdr", rows |-> <<>>]
FileOk(rows) == [st |-> "ok", rows |-> rows]

\* pd.read_csv(...)["Species"] succeeds only on a file with the full header.
Readable(f) == f.st = "ok"

\* What a kill during DataFrame.to_csv(path) of `rows` can leave in a file
\* that was opened with mode "w": any prefix of the bytes.
PartialWrites(rows) ==
    {FileEmpty, FileTornHeader}
    \cup {FileOk(Prefix(rows, k)) : k \in 0..Len(rows)}
    \cup {FileOk(Append(Prefix(rows, k), Torn)) : k \in 0..(Len(rows) - 1)}

\* What to_csv(path) of `rows` leaves when it writes from offset 0 into a
\* file that another writer has filled since this writer truncated it: its
\* own bytes, followed by whatever of the other content lies beyond them
\* (nothing, or whole rows, or the rest of a row and then whole rows).  A
\* header alone covers exactly the header that is there.
Overwritten(rows, f) ==
    IF f.st # "ok" THEN {FileOk(rows)}
    ELSE IF rows = <<>> THEN {f}
    ELSE {FileOk(rows \o SubSeq(f.rows, k, Len(f.rows))) : k \in 2..(Len(f.rows) + 1)}
         \cup {FileOk(rows \o <<Torn>> \o SubSeq(f.rows, k, Len(f.rows))) :
                   k \in 2..(Len(f.rows) + 1)}
         \cup {FileOk(rows)}

\* The Checkpoint Store as a set of species names.
StoreNames(f) == Range(f.rows) \cap Species

\* ------------------------------------------------------------------ init
NoProgress == [fetched |-> 0, persisted |-> 0, appended |-> 0, persist_failed |-> 0]

NoKill == [sp |-> None, run |-> 0]

Init ==
    /\ arguments = [p \in Procs |-> BatchArguments]
    /\ download_folder_path = [p \in Procs |-> None]
    /\ species_list_csv \in SeqsUpTo(Species, MaxLen)
    /\ list_loadable = TRUE
    /\ folder = FALSE
    /\ metadata = FALSE
    /\ list_copy = FALSE
    /\ already_downloaded_csv = FileAbsent
    /\ persisted = [s \in Species |-> 0]
    /\ pc = [p \in Procs |-> "idle"]
    /\ species_list = [p \in Procs |-> <<>>]
    /\ already_downloaded_species = [p \in Procs |-> <<>>]
    /\ idx = [p \in Procs |-> 1]
    /\ already_downloaded = [p \in Procs |-> <<>>]
    /\ progress = [p \in Procs |-> NoProgress]
    /\ runs = 0
    /\ outcome = [p \in Procs |-> "none"]
    /\ previous = [p \in Procs |-> "none"]
    /\ inits = 0
    /\ checkpointed = {}
    /\ kill_window = NoKill
    /\ interrupted = {}

\* Groups of variables for the UNCHANGED clauses.
environment == <<arguments, download_folder_path, species_list_csv, list_loadable, runs,
                 previous>>
folders == <<folder, metadata, list_copy>>
history == <<inits, checkpointed, kill_window, interrupted>>

\* --------------------------------------------------------- control flow
Goto(p, label) == pc' = [pc EXCEPT ![p] = label]

\* An exception propagates out of download_species_data (nothing in the
\* class catches one): the run is over, the disk stays as it is.
Raise(p) ==
    /\ pc' = [pc EXCEPT ![p] = "idle"]
    /\ outcome' = [outcome EXCEPT ![p] = "failed"]

\* Line 80: the loop is exhausted and the call returns.
Return(p) ==
    /\ pc' = [pc EXCEPT ![p] = "idle"]
    /\ outcome' = [outcome EXCEPT ![p] = "done"]

\* The species the for loop is at.
species_name(p) == species_list[p][idx[p]]

\* Variant: the first data row is taken for the header and not compared.
filter_skips_first_row(list, downloaded) ==
    SelectSeq(list, LAMBDA species :
                  species \notin Range(SubSeq(downloaded, 2, Len(downloaded))))

\* Variant: a species counts as downloaded once its recordings are on disk.
filter_by_species_folder(list, downloaded) ==
    SelectSeq(list, LAMBDA species : persisted[species] = 0)

\* Variant: nothing is filtered out.
filter_nothing(list, downloaded) == list

\* Lines 215-220: keep, in order, the names that are not among the rows read.
filter_already_downloaded_species(list, downloaded) ==
    SelectSeq(list, LAMBDA species : species \notin Range(downloaded))

\* Variant: the new row is put in front of the rows read.
concat_prepends(rows, name) == <<name>> \o rows

\* Variant: only the new row is kept.
concat_forgets_rows(rows, name) == <<name>>

\* Lines 297-300: pd.concat of the rows read and the one new row.
concat(rows, name) == Append(rows, name)

\* ------------------------------------------------- download_species_data
\* Variant: the quality is not checked.
quality_not_checked(p, quality) ==
    /\ Goto(p, "initialize_download_manager")
    /\ outcome' = [outcome EXCEPT ![p] = "running"]

\* Lines 43-47: a quality outside A, B, C raises ValueError.
check_quality(p, quality) ==
    IF quality \in {"A", "B", "C"}
    THEN /\ Goto(p, "initialize_download_manager")
         /\ outcome' = [outcome EXCEPT ![p] = "running"]
    ELSE Raise(p)

\* Variant: the folder name of the docstring, without max_pages.
folder_name_without_max_pages(species_list_name, recorded_year, quality, max_pages) ==
    species_list_name \o "_y" \o ToString(recorded_year) \o "_q" \o quality

\* Lines 128-130: <species_list_name>_y<year>_q<quality>_mp<max_pages>.
download_folder_name(species_list_name, recorded_year, quality, max_pages) ==
    species_list_name \o "_y" \o ToString(recorded_year) \o "_q" \o quality
        \o "_mp" \o ToString(max_pages)

\* Line 126: path.basename(species_list_path).split(".")[0].
species_list_name(species_list_path) == species_list_path.file[1]

\* Line 132: path.join(downloader_base_path, download_folder_name).
path_join(base, name) == base \o "/" \o name

\* Lines 126-132 for the arguments of a call.
FolderPath(a) ==
    path_join(a.downloader_base_path,
              download_folder_name(species_list_name(a.species_list_path),
                                   a.recorded_year, a.quality, a.max_pages))

\* Lines 11-47: the call starts; a quality outside A, B, C raises ValueError
\* before anything else happens.
download_species_data(p) ==
    /\ pc[p] = "idle"
    /\ runs < MaxRuns
    /\ runs' = runs + 1
    /\ previous' = [previous EXCEPT ![p] = outcome[p]]
    /\ species_list' = [species_list EXCEPT ![p] = <<>>]
    /\ already_downloaded_species' = [already_downloaded_species EXCEPT ![p] = <<>>]
    /\ idx' = [idx EXCEPT ![p] = 1]
    /\ already_downloaded' = [already_downloaded EXCEPT ![p] = <<>>]
    /\ progress' = [progress EXCEPT ![p] = NoProgress]
    /\ \E quality \in QualityInputs, loadable \in BOOLEAN :
        /\ list_loadable' = loadable
        /\ arguments' = [arguments EXCEPT ![p] = [BatchArguments EXCEPT !.quality = quality]]
        /\ check_quality(p, quality)
    /\ UNCHANGED <<download_folder_path, species_list_csv, folders,
                   already_downloaded_csv, persisted, history>>

\* Lines 126-136: compute the folder path, create the batch folder unless it
\* exists.  (Only the folder of the batch under observation is tracked.)
initialize_download_manager(p) ==
    /\ pc[p] = "initialize_download_manager"
    /\ download_folder_path' = [download_folder_path EXCEPT ![p] = FolderPath(arguments[p])]
    /\ folder' = IF FolderPath(arguments[p]) = FolderPath(BatchArguments)
                 THEN TRUE ELSE folder
    /\ Goto(p, "initialize_metadata")
    /\ UNCHANGED <<arguments, species_list_csv, list_loadable, runs, previous, metadata, list_copy, already_downloaded_csv, persisted,
                   species_list, already_downloaded_species, idx, already_downloaded,
                   progress, outcome, history>>

\* Variant: a batch whose already_downloaded.csv cannot be read is
\* initialized again.
initialize_metadata_resets(p) ==
    /\ pc[p] = "initialize_metadata"
    /\ IF metadata /\ Readable(already_downloaded_csv)
       THEN /\ Goto(p, "read_species_list")
            /\ UNCHANGED metadata
       ELSE /\ metadata' = TRUE
            /\ Goto(p, "copy_species_list")
    /\ UNCHANGED <<environment, folder, list_copy, already_downloaded_csv, persisted,
                   species_list, already_downloaded_species, idx, already_downloaded,
                   progress, outcome, history>>

\* Lines 162-168: return at once if the metadata folder exists, else mkdir.
initialize_metadata(p) ==
    /\ pc[p] = "initialize_metadata"
    /\ IF metadata
       THEN /\ Goto(p, "read_species_list")
            /\ UNCHANGED metadata
       ELSE /\ metadata' = TRUE
            /\ Goto(p, "copy_species_list")
    /\ UNCHANGED <<environment, folder, list_copy, already_downloaded_csv, persisted,
                   species_list, already_downloaded_species, idx, already_downloaded,
                   progress, outcome, history>>

\* Lines 171-175: shutil.copy of the species list; raises if it cannot be read.
copy_species_list(p) ==
    /\ pc[p] = "copy_species_list"
    /\ IF list_loadable
       THEN /\ list_copy' = TRUE
            /\ Goto(p, "create_already_downloaded")
            /\ UNCHANGED outcome
       ELSE /\ Raise(p)
            /\ UNCHANGED list_copy
    /\ UNCHANGED <<environment, folder, metadata, already_downloaded_csv, persisted,
                   species_list, already_downloaded_species, idx, already_downloaded,
                   progress, history>>

\* Lines 178-180, first half: to_csv opens already_downloaded.csv for writing.
create_already_downloaded(p) ==
    /\ pc[p] = "create_already_downloaded"
    /\ already_downloaded_csv' = FileEmpty
    /\ Goto(p, "write_empty_already_downloaded")
    /\ UNCHANGED <<environment, folders, persisted, species_list,
                   already_downloaded_species, idx, already_downloaded, progress,
                   outcome, history>>

\* Lines 178-180, second half: the header row is written and the file closed.
write_empty_already_downloaded(p) ==
    /\ pc[p] = "write_empty_already_downloaded"
    /\ already_downloaded_csv' \in Overwritten(<<>>, already_downloaded_csv)
    /\ inits' = inits + 1
    /\ Goto(p, "read_species_list")
    /\ UNCHANGED <<environment, folders, persisted, species_list,
                   already_downloaded_species, idx, already_downloaded, progress,
                   outcome, checkpointed, kill_window, interrupted>>

\* Lines 60-62: load the "Common Name" column; raises if it cannot be read.
read_species_list(p) ==
    /\ pc[p] = "read_species_list"
    /\ IF list_loadable
       THEN /\ species_list' = [species_list EXCEPT ![p] = species_list_csv]
            /\ Goto(p, "filter_already_downloaded_species")
            /\ UNCHANGED outcome
       ELSE /\ Raise(p)
            /\ UNCHANGED species_list
    /\ UNCHANGED <<environment, folders, already_downloaded_csv, persisted,
                   already_downloaded_species, idx, already_downloaded, progress,
                   history>>

\* Lines 65-67 and 205-220: read already_downloaded.csv (raises if it is
\* missing, empty or lacks the "Species" column) and drop its names.
filter_species_list(p) ==
    /\ pc[p] = "filter_already_downloaded_species"
    /\ IF Readable(already_downloaded_csv)
       THEN /\ already_downloaded_species' =
                  [already_downloaded_species EXCEPT ![p] = already_downloaded_csv.rows]
            /\ species_list' =
                  [species_list EXCEPT ![p] =
                      filter_already_downloaded_species(@, already_downloaded_csv.rows)]
            /\ Goto(p, "for_species_name")
            /\ UNCHANGED outcome
       ELSE /\ Raise(p)
            /\ UNCHANGED <<already_downloaded_species, species_list>>
    /\ UNCHANGED <<environment, folders, already_downloaded_csv, persisted, idx,
                   already_downloaded, progress, history>>

\* Variant: the loop leaves out the last species of the pending list.
for_species_name_stops_early(p) ==
    /\ pc[p] = "for_species_name"
    /\ IF idx[p] < Len(species_list[p])
       THEN /\ Goto(p, "send_query")
            /\ progress' = [progress EXCEPT ![p].fetched = idx[p]]
            /\ UNCHANGED outcome
       ELSE /\ Return(p)
            /\ UNCHANGED progress
    /\ UNCHANGED <<environment, folders, already_downloaded_csv, persisted, species_list,
                   already_downloaded_species, idx, already_downloaded, history>>

\* Line 72: the for loop takes the next species, or line 80: returns.
for_species_name(p) ==
    /\ pc[p] = "for_species_name"
    /\ IF idx[p] <= Len(species_list[p])
       THEN /\ Goto(p, "send_query")
            /\ progress' = [progress EXCEPT ![p].fetched = idx[p]]
            /\ UNCHANGED outcome
       ELSE /\ Return(p)
            /\ UNCHANGED progress
    /\ UNCHANGED <<environment, folders, already_downloaded_csv, persisted, species_list,
                   already_downloaded_species, idx, already_downloaded, history>>

\* Variant: the query result is never downloaded.
send_query_skips_download(p) ==
    /\ pc[p] = "send_query"
    /\ \/ /\ Goto(p, "update_read")
          /\ UNCHANGED outcome
       \/ Raise(p)
    /\ UNCHANGED <<environment, folders, already_downloaded_csv, persisted, species_list,
                   already_downloaded_species, idx, already_downloaded, progress,
                   history>>

\* Line 260: FetchManager.send_query returns a query result, or raises.
send_query(p) ==
    /\ pc[p] = "send_query"
    /\ \/ /\ Goto(p, "download_all_recordings")
          /\ UNCHANGED outcome
       \/ Raise(p)
    /\ UNCHANGED <<environment, folders, already_downloaded_csv, persisted, species_list,
                   already_downloaded_species, idx, already_downloaded, progress,
                   history>>

\* Variant: the error is caught and the loop body goes on.
download_error_swallowed(p) ==
    /\ Goto(p, "update_read")
    /\ UNCHANGED outcome
    /\ progress' = [progress EXCEPT ![p].persist_failed = idx[p]]

\* Variant: the species is tried again after an error.
download_error_retries(p) ==
    /\ Goto(p, "send_query")
    /\ UNCHANGED outcome
    /\ progress' = [progress EXCEPT ![p].persist_failed = idx[p]]

\* Line 268 raises: lines 72-78 have no try/except, the error leaves the loop.
download_error(p) ==
    /\ Raise(p)
    /\ progress' = [progress EXCEPT ![p].persist_failed = idx[p]]

\* Variant: line 78 sits outside the loop body, the loop takes the next species.
download_returned_to_loop(p) ==
    /\ progress' = [progress EXCEPT ![p].persisted = idx[p]]
    /\ idx' = [idx EXCEPT ![p] = @ + 1]
    /\ Goto(p, "for_species_name")
    /\ UNCHANGED outcome

\* Line 268 returns: line 78 is next.
download_returned(p) ==
    /\ progress' = [progress EXCEPT ![p].persisted = idx[p]]
    /\ UNCHANGED idx
    /\ Goto(p, "update_read")
    /\ UNCHANGED outcome

\* Line 268: download_all_recordings_in_queryresult finishes, or raises.
download_all_recordings(p) ==
    /\ pc[p] = "download_all_recordings"
    /\ \/ /\ persisted' = [persisted EXCEPT ![species_name(p)] = @ + 1]
          /\ download_returned(p)
       \/ /\ download_error(p)
          /\ UNCHANGED <<persisted, idx>>
    /\ UNCHANGED <<environment, folders, already_downloaded_csv, species_list,
                   already_downloaded_species, already_downloaded, history>>

\* Lines 294-300: read already_downloaded.csv and concat the new row.
update_read(p) ==
    /\ pc[p] = "update_read"
    /\ IF Readable(already_downloaded_csv)
       THEN /\ already_downloaded' =
                  [already_downloaded EXCEPT ![p] =
                      concat(already_downloaded_csv.rows, species_name(p))]
            /\ Goto(p, "update_open")
            /\ UNCHANGED outcome
       ELSE /\ Raise(p)
            /\ UNCHANGED already_downloaded
    /\ UNCHANGED <<environment, folders, already_downloaded_csv, persisted, species_list,
                   already_downloaded_species, idx, progress, history>>

\* Variant: the file is read again right before it is truncated, so the
\* rows written are never stale.
update_open_rereads(p) ==
    /\ pc[p] = "update_open"
    /\ already_downloaded' =
          [already_downloaded EXCEPT ![p] =
              IF Readable(already_downloaded_csv)
              THEN concat(already_downloaded_csv.rows, species_name(p))
              ELSE @]
    /\ already_downloaded_csv' = FileEmpty
    /\ Goto(p, "update_write")
    /\ UNCHANGED <<environment, folders, persisted, species_list,
                   already_downloaded_species, idx, progress, outcome, history>>

\* Line 302, first half: to_csv opens already_downloaded.csv with mode "w",
\* which truncates it.
update_open(p) ==
    /\ pc[p] = "update_open"
    /\ already_downloaded_csv' = FileEmpty
    /\ Goto(p, "update_write")
    /\ UNCHANGED <<environment, folders, persisted, species_list,
                   already_downloaded_species, idx, already_downloaded, progress,
                   outcome, history>>

\* Line 302, second half: header and rows are written and the file closed;
\* the for loop moves on.
update_write(p) ==
    /\ pc[p] = "update_write"
    /\ already_downloaded_csv' \in Overwritten(already_downloaded[p], already_downloaded_csv)
    /\ checkpointed' = checkpointed \cup (Range(already_downloaded[p]) \cap Species)
    /\ progress' = [progress EXCEPT ![p].appended = idx[p]]
    /\ idx' = [idx EXCEPT ![p] = @ + 1]
    /\ Goto(p, "for_species_name")
    /\ UNCHANGED <<environment, folders, persisted, species_list,
                   already_downloaded_species, already_downloaded, outcome, inits,
                   kill_window, interrupted>>

\* ------------------------------------------------------------------ kill
\* The positions at which to_csv holds the file open for writing.
Writing == {"write_empty_already_downloaded", "update_write"}

\* The positions of a run after the pending list is computed.
AfterFilter == {"for_species_name", "send_query", "download_all_recordings",
                "update_read", "update_open", "update_write"}

\* The names this run has appended to the checkpoint so far.
Appended(p) == {species_list[p][i] : i \in 1..progress[p].appended}

\* The persist step of the current species has returned, nothing of its
\* append has started, and this run has not appended the name before.
InWindow(p) ==
    /\ pc[p] \in {"update_read", "update_open"}
    /\ progress[p].persisted = idx[p]
    /\ species_name(p) \notin Appended(p)

\* The positions of the loop body: a species is being processed.
InLoopBody == {"send_query", "download_all_recordings", "update_read", "update_open",
               "update_write"}

\* The process is killed (SIGKILL, power loss) at any point of a run.  A
\* file being written keeps some prefix of its bytes.
Kill(p) ==
    /\ pc[p] # "idle"
    /\ pc' = [pc EXCEPT ![p] = "idle"]
    /\ outcome' = [outcome EXCEPT ![p] = "killed"]
    /\ IF pc[p] \in Writing
       THEN already_downloaded_csv' \in
                PartialWrites(IF pc[p] = "update_write" THEN already_downloaded[p]
                                                         ELSE <<>>)
       ELSE UNCHANGED already_downloaded_csv
    /\ inits' = IF pc[p] = "write_empty_already_downloaded"
                   /\ already_downloaded_csv' = FileOk(<<>>)
                THEN inits + 1 ELSE inits
    /\ checkpointed' = checkpointed \cup StoreNames(already_downloaded_csv')
    /\ kill_window' = IF InWindow(p)
                      THEN [sp |-> species_name(p), run |-> runs]
                      ELSE kill_window
    /\ interrupted' = IF pc[p] \in InLoopBody
                      THEN interrupted \cup {species_name(p)}
                      ELSE interrupted
    /\ UNCHANGED <<environment, folders, persisted, species_list,
                   already_downloaded_species, idx, already_downloaded, progress>>

\* ------------------------------------------------------------------ spec
Step(p) ==
    \/ download_species_data(p)
    \/ initialize_download_manager(p)
    \/ initialize_metadata(p)
    \/ copy_species_list(p)
    \/ create_already_downloaded(p)
    \/ write_empty_already_downloaded(p)
    \/ read_species_list(p)
    \/ filter_species_list(p)
    \/ for_species_name(p)
    \/ send_query(p)
    \/ download_all_recordings(p)
    \/ update_read(p)
    \/ update_open(p)
    \/ update_write(p)
    \/ Kill(p)

\* One interpreter at a time: runs follow one another.
Next == Step(1)

Spec == Init /\ [][Next]_vars

TypeOK ==
    /\ species_list_csv \in SeqsUpTo(Species, MaxLen)
    /\ list_loadable \in BOOLEAN
    /\ folder \in BOOLEAN /\ metadata \in BOOLEAN /\ list_copy \in BOOLEAN
    /\ already_downloaded_csv.st \in {"absent", "empty", "tornhdr", "ok"}
    /\ Range(already_downloaded_csv.rows) \subseteq Species \cup {Torn}
    /\ \A s \in Species : persisted[s] \in 0..(MaxLen * MaxRuns)
    /\ runs \in 0..MaxRuns
    /\ inits \in 0..MaxRuns
    /\ checkpointed \subseteq Species
    /\ \A p \in Procs :
        /\ idx[p] \in 1..(MaxLen + 1)
        /\ outcome[p] \in {"none", "running", "done", "failed", "killed"}

\* ------------------------------------------------- the filter on its own
\* _filter_already_downloaded_species applied to any species list and any
\* readable or unreadable already_downloaded.csv.
MaxFilterLen == 3    \* longest species list given to the filter
MaxStoreLen == 2     \* most rows of already_downloaded.csv given to the filter

FilterFiles ==
    {FileAbsent, FileEmpty, FileTornHeader}
    \cup {FileOk(rows) : rows \in SeqsUpTo(Species \cup {Torn}, MaxStoreLen)}

InitFilter ==
    /\ arguments = [p \in Procs |-> BatchArguments]
    /\ download_folder_path = [p \in Procs |-> None]
    /\ species_list_csv \in SeqsUpTo(Species, MaxFilterLen)
    /\ already_downloaded_csv \in FilterFiles
    /\ list_loadable = TRUE
    /\ folder = TRUE
    /\ metadata = TRUE
    /\ list_copy = TRUE
    /\ persisted = [s \in Species |-> 0]
    /\ pc = [p \in Procs |-> IF p = 1 THEN "read_species_list" ELSE "idle"]
    /\ species_list = [p \in Procs |-> <<>>]
    /\ already_downloaded_species = [p \in Procs |-> <<>>]
    /\ idx = [p \in Procs |-> 1]
    /\ already_downloaded = [p \in Procs |-> <<>>]
    /\ progress = [p \in Procs |-> NoProgress]
    /\ runs = 1
    /\ outcome = [p \in Procs |-> IF p = 1 THEN "running" ELSE "none"]
    /\ previous = [p \in Procs |-> "none"]
    /\ inits = 0
    /\ checkpointed = {}
    /\ kill_window = NoKill
    /\ interrupted = {}

NextFilter == read_species_list(1) \/ filter_species_list(1)

SpecFilter == InitFilter /\ [][NextFilter]_vars

\* ---------------------------------------------------------------- claims
\* No run is in progress.
Idle == \A p \in Procs : pc[p] = "idle"

\* C1: within a run the steps are totally ordered: the checkpoint append of
\* the i-th pending species comes after its persist step returned and
\* before the fetch of the (i+1)-th begins, so at most one species is in
\* flight; when a fetch begins, every earlier pending species has been
\* persisted and appended, and its name is in already_downloaded.csv.
C1_StepsOrdered ==
    \A p \in {1} :
        /\ progress[p].appended <= progress[p].persisted
        /\ progress[p].persisted <= progress[p].fetched
        /\ progress[p].fetched <= progress[p].appended + 1
        /\ pc[p] = "send_query" =>
              /\ progress[p].fetched = idx[p]
              /\ progress[p].persisted = idx[p] - 1
              /\ progress[p].appended = idx[p] - 1
              /\ \A i \in 1..(idx[p] - 1) :
                    species_list[p][i] \in StoreNames(already_downloaded_csv)
        /\ pc[p] \in {"update_read", "update_open", "update_write"} =>
              progress[p].persisted = idx[p]

\* The fetch of the second pending species has begun.
C1_Witness == pc[1] = "send_query" /\ idx[1] = 2

\* C2 as stated: at every instant a name is in the Checkpoint Store if and
\* only if a persist step for it has completed.
C2_StoreIffPersisted ==
    \A s \in Species :
        s \in StoreNames(already_downloaded_csv) <=> persisted[s] >= 1

\* C2 amended: every name in the Checkpoint Store has had a persist step
\* complete (the converse fails between the persist step and the append).
C2_StoreImpliesPersisted ==
    \A s \in Species :
        s \in StoreNames(already_downloaded_csv) => persisted[s] >= 1

\* A run was killed with one species checkpointed and another persisted
\* but not checkpointed.
C2_Witness ==
    /\ Idle
    /\ outcome[1] = "killed"
    /\ \E s \in Species : s \in StoreNames(already_downloaded_csv)
    /\ \E s \in Species :
        persisted[s] >= 1 /\ s \notin StoreNames(already_downloaded_csv)

\* C3: once the persist step has raised for the species at position i of
\* the pending list, the run is over and has appended nothing at or after
\* position i; the steps of the checkpoint write are only taken for a
\* species whose persist step returned.
C3_NoCheckpointAfterFailedPersist ==
    \A p \in {1} :
        /\ progress[p].persist_failed # 0 =>
              /\ pc[p] = "idle"
              /\ outcome[p] = "failed"
              /\ progress[p].appended < progress[p].persist_failed
              /\ progress[p].persisted < progress[p].persist_failed
        /\ pc[p] \in {"update_read", "update_open", "update_write"} =>
              /\ progress[p].persist_failed = 0
              /\ progress[p].persisted = idx[p]

\* The persist step raised for the second pending species, after the first
\* was checkpointed.
C3_Witness ==
    /\ progress[1].persist_failed = 2
    /\ progress[1].appended = 1

\* C4: between runs, whatever way the runs ended, every name that was once
\* in the Checkpoint Store is still in it.
C4_StoreNeverShrinks ==
    Idle => checkpointed \subseteq StoreNames(already_downloaded_csv)

\* C5: after a kill between the persist step of S and its checkpoint
\* append (no append for S having happened), S is not in the Checkpoint
\* Store; the pending list of the next run holds S, and if that run
\* returns it has persisted S again.
C5_RedoneAfterKill ==
    kill_window.sp # None =>
        /\ runs = kill_window.run =>
              kill_window.sp \notin StoreNames(already_downloaded_csv)
        /\ runs = kill_window.run + 1 =>
              /\ pc[1] \in AfterFilter =>
                    kill_window.sp \in Range(species_list[1])
              /\ outcome[1] = "done" =>
                    \E i \in 1..progress[1].persisted :
                        species_list[1][i] = kill_window.sp

\* The run after such a kill has returned.
C5_Witness ==
    /\ kill_window.sp # None
    /\ runs = kill_window.run + 1
    /\ outcome[1] = "done"
    /\ persisted[kill_window.sp] = 2

\* The species list holds no name twice.
DistinctNames == \A s \in Species : Occurrences(s, species_list_csv) <= 1

\* C6 as stated, on species lists of distinct names: no species has more
\* than one completed persist step.
C6_PersistedOnce ==
    DistinctNames => \A s \in Species : persisted[s] <= 1

\* C6 amended: a run completes a persist step only for species that were
\* not in the Checkpoint Store when it filtered the list, and at most once
\* per occurrence in the list; a species in the Checkpoint Store has been
\* persisted at least once.
C6_PersistedOncePerRunAndOccurrence ==
    /\ \A p \in {1} : \A i \in 1..progress[p].persisted :
          species_list[p][i] \notin Range(already_downloaded_species[p])
    /\ \A s \in Species :
          /\ persisted[s] <= runs * Occurrences(s, species_list_csv)
          /\ s \in checkpointed => persisted[s] >= 1

\* A species was persisted by two runs.
C6_Witness ==
    /\ DistinctNames
    /\ \E s \in Species : persisted[s] = 2 /\ s \in checkpointed

\* C7: a run that follows a run that returned does nothing: its pending
\* list is empty, it fetches and persists nothing, and it leaves
\* already_downloaded.csv as it was.
C7_SecondRunDoesNothing ==
    [][(previous[1] = "done" /\ outcome[1] = "running") =>
          /\ already_downloaded_csv' = already_downloaded_csv
          /\ persisted' = persisted
          /\ progress'[1] = NoProgress
          /\ pc'[1] \in AfterFilter => species_list'[1] = <<>>]_vars

\* The second of two runs over a non-empty list has returned.
C7_Witness ==
    /\ previous[1] = "done"
    /\ outcome[1] = "done"
    /\ Len(species_list_csv) = MaxLen
    /\ Range(species_list_csv) \subseteq StoreNames(already_downloaded_csv)

\* C8: no species name is on two rows of already_downloaded.csv.
C8_NoDuplicateRows ==
    \A s \in Species : Occurrences(s, already_downloaded_csv.rows) <= 1

\* The positions of `list` whose name is not in `names`.
KeptPositions(list, names) == {i \in 1..Len(list) : list[i] \notin names}

\* `result` is `list` without the names in `names`, order kept.
IsListMinus(result, list, names) ==
    /\ Len(result) = Cardinality(KeptPositions(list, names))
    /\ \A i \in KeptPositions(list, names) :
          result[Cardinality({j \in KeptPositions(list, names) : j <= i})] = list[i]

\* The filter has just returned.
Filtered(p) == pc[p] = "for_species_name" /\ progress[p] = NoProgress /\ idx[p] = 1

\* C9: the pending list is the species list without the names on the rows
\* of already_downloaded.csv, in the order of the species list; Robin, Wren,
\* Owl with Wren checkpointed gives Robin, Owl.
C9_PendingIsListMinusStore ==
    Filtered(1) =>
        /\ IsListMinus(species_list[1], species_list_csv,
                       Range(already_downloaded_csv.rows))
        /\ (species_list_csv = <<"Robin", "Wren", "Owl">>
            /\ already_downloaded_csv.rows = <<"Wren">>)
              => species_list[1] = <<"Robin", "Owl">>

\* The filter has returned Robin, Owl for Robin, Wren, Owl and Wren.
C9_Witness ==
    /\ Filtered(1)
    /\ species_list_csv = <<"Robin", "Wren", "Owl">>
    /\ already_downloaded_csv.rows = <<"Wren">>
    /\ species_list[1] = <<"Robin", "Owl">>

\* The positions of a run after _initialize_metadata returned.
AfterInitializeMetadata ==
    {"read_species_list", "filter_already_downloaded_species"} \cup AfterFilter

\* C10: a run that is past _initialize_metadata works on a store that was
\* initialized exactly once and exists.
C10_InitializedOnceAndReused ==
    \A p \in {1} :
        pc[p] \in AfterInitializeMetadata =>
            /\ inits = 1
            /\ already_downloaded_csv.st # "absent"

\* How often this run has completed the persist step of species s.
PersistedThisRun(p, s) == Occurrences(s, Prefix(species_list[p], progress[p].persisted))

\* C11: a run fetches no species that was in the Checkpoint Store when it
\* read it; and a run persists again, among the species whose persist step
\* had completed before the run, only species that were in flight when an
\* earlier run was killed.
C11_OnlyInFlightRedone ==
    \A p \in {1} :
        /\ \A i \in 1..progress[p].fetched :
              species_list[p][i] \notin Range(already_downloaded_species[p])
        /\ \A s \in Species :
              (PersistedThisRun(p, s) >= 1
               /\ persisted[s] - PersistedThisRun(p, s) >= 1) => s \in interrupted

\* C12: a call with a quality outside A, B, C ends at once with the error
\* and has touched nothing: no folder, no file, no recording.
C12_BadQualityTouchesNothing ==
    [][arguments'[1].quality \notin {"A", "B", "C"} =>
          /\ UNCHANGED <<folder, metadata, list_copy, already_downloaded_csv, persisted>>
          /\ download_folder_path' = download_folder_path
          /\ pc'[1] = "idle"
          /\ outcome'[1] = "failed"
          /\ progress'[1] = NoProgress]_vars

\* The first call against a fresh batch had quality D.
C12_Witness ==
    /\ runs = 1
    /\ arguments[1].quality = "D"
    /\ outcome[1] = "failed"
    /\ ~folder /\ ~metadata /\ already_downloaded_csv = FileAbsent

\* ------------------------------------------------ the batch folder name
\* _initialize_download_manager for two calls with any arguments.
ListPaths ==
    {RedlistPath,
     [dir |-> "backup", file |-> <<"redlist", "v2", "csv">>],
     [dir |-> "data", file |-> <<"redlist_y2020", "csv">>]}

IdentityArguments ==
    [species_list_path : ListPaths, recorded_year : {2020, 20},
     quality : {"A", "B", "C"}, max_pages : {5, 15}, downloader_base_path : {"out"}]

InitIdentity ==
    /\ arguments \in [Procs -> IdentityArguments]
    /\ download_folder_path = [p \in Procs |-> None]
    /\ species_list_csv = <<>>
    /\ list_loadable = TRUE
    /\ folder = FALSE
    /\ metadata = FALSE
    /\ list_copy = FALSE
    /\ already_downloaded_csv = FileAbsent
    /\ persisted = [s \in Species |-> 0]
    /\ pc = [p \in Procs |-> "initialize_download_manager"]
    /\ species_list = [p \in Procs |-> <<>>]
    /\ already_downloaded_species = [p \in Procs |-> <<>>]
    /\ idx = [p \in Procs |-> 1]
    /\ already_downloaded = [p \in Procs |-> <<>>]
    /\ progress = [p \in Procs |-> NoProgress]
    /\ runs = 2
    /\ outcome = [p \in Procs |-> "running"]
    /\ previous = [p \in Procs |-> "none"]
    /\ inits = 0
    /\ checkpointed = {}
    /\ kill_window = NoKill
    /\ interrupted = {}

NextIdentity == \E p \in Procs : initialize_download_manager(p)

SpecIdentity == InitIdentity /\ [][NextIdentity]_vars

\* year, quality and max_pages of a call.
QueryParameters(a) == <<a.recorded_year, a.quality, a.max_pages>>

\* C17: redlist, 2020, A, 5 gives the folder redlist_y2020_qA_mp5; two calls
\* with the same list base name and the same year, quality and max_pages
\* get the same folder; two calls that differ in year, quality or
\* max_pages get different folders.
C17_FolderNameIdentifiesBatch ==
    \A p, q \in Procs :
        (download_folder_path[p] # None /\ download_folder_path[q] # None) =>
            /\ (species_list_name(arguments[p].species_list_path) = "redlist"
                /\ QueryParameters(arguments[p]) = <<2020, "A", 5>>)
                  => download_folder_path[p] = "out/redlist_y2020_qA_mp5"
            /\ (species_list_name(arguments[p].species_list_path)
                    = species_list_name(arguments[q].species_list_path)
                /\ QueryParameters(arguments[p]) = QueryParameters(arguments[q]))
                  => download_folder_path[p] = download_folder_path[q]
            /\ QueryParameters(arguments[p]) # QueryParameters(arguments[q])
                  => download_folder_path[p] # download_folder_path[q]

\* Two calls for redlist, 2020, A from files in different folders, one
\* with max_pages 5 and one with 15.
C17_Witness ==
    /\ download_folder_path[1] = "out/redlist_y2020_qA_mp5"
    /\ download_folder_path[2] = "out/redlist_y2020_qA_mp15"
    /\ arguments[1].species_list_path # arguments[2].species_list_path

\* C13: a run that fails because the species list cannot be read has
\* processed no species and leaves no half-made metadata behind: if there
\* is no already_downloaded.csv, there is no metadata folder either, so a
\* later run initializes the batch.
C13_UnloadableListLeavesNoPartialState ==
    [][(~list_loadable /\ outcome[1] = "running" /\ outcome'[1] = "failed") =>
          /\ progress'[1] = NoProgress
          /\ already_downloaded_csv'.st = "absent" => ~metadata']_vars

\* C14: when the fetch or the persist step raises for the species at
\* position i of the pending list, the run ends there: nothing was fetched
\* beyond i, species i is not persisted or tried again, and
\* already_downloaded.csv holds the rows the run found plus the i-1 species
\* completed before.
C14_ErrorHaltsRun ==
    \A p \in {1} :
        /\ progress[p].persist_failed # 0 =>
              /\ pc[p] = "idle"
              /\ outcome[p] = "failed"
              /\ progress[p].fetched = progress[p].persist_failed
        /\ (outcome[p] = "failed" /\ progress[p].fetched >= 1) =>
              /\ pc[p] = "idle"
              /\ progress[p].persisted = progress[p].fetched - 1
              /\ progress[p].appended = progress[p].fetched - 1
              /\ already_downloaded_csv =
                    FileOk(already_downloaded_species[p]
                           \o Prefix(species_list[p], progress[p].fetched - 1))

\* The fetch raised for the second pending species.
C14_Witness ==
    /\ outcome[1] = "failed"
    /\ progress[1].fetched = 2
    /\ progress[1].persist_failed = 0
    /\ Len(species_list[1]) = 2

\* ------------------------------------------------------------- fair runs
\* The interpreter executes the next statement of a run unless the process
\* is killed from outside.
Executes(p) == Step(p) /\ outcome'[p] # "killed"

SpecFair == Init /\ [][Next]_vars /\ WF_vars(Executes(1))

\* C15: every run that is not killed comes to an end, and when a run
\* returns normally every name of the species list is in
\* already_downloaded.csv.
C15_RunTerminatesWithAllInStore ==
    /\ [](outcome[1] = "done" =>
             Range(species_list_csv) \subseteq StoreNames(already_downloaded_csv))
    /\ (outcome[1] = "running") ~> (outcome[1] # "running")

\* A run returned after appending two species.
C15_Witness ==
    /\ outcome[1] = "done"
    /\ progress[1].appended = 2
    /\ Range(species_list_csv) \subseteq StoreNames(already_downloaded_csv)

\* The part of a run before the loop, for a batch that is already there
\* (lines 44-67 with _initialize_metadata returning at line 166).
StartPhase ==
    {"idle", "initialize_download_manager", "initialize_metadata", "read_species_list",
     "filter_already_downloaded_species"}

\* C16: while the metadata folder exists and already_downloaded.csv is
\* missing, empty or without its "Species" column, a run never gets past
\* the filter: the file is left as it is (never reset), nothing is
\* fetched or persisted, the run does not return normally, and the read in
\* the filter ends the run with an error.
C16_UnreadableCheckpointSurfaced ==
    [][(metadata /\ ~Readable(already_downloaded_csv) /\ pc[1] \in StartPhase) =>
          /\ already_downloaded_csv' = already_downloaded_csv
          /\ persisted' = persisted
          /\ progress'[1] = NoProgress
          /\ pc'[1] \in StartPhase
          /\ outcome'[1] # "done"
          /\ pc[1] = "filter_already_downloaded_species" =>
                outcome'[1] \in {"failed", "killed"}]_vars

\* A run with valid arguments and a loadable list ended with an error
\* before its loop, on a batch whose checkpoint is unreadable.
C16_Witness ==
    /\ Idle
    /\ runs >= 2
    /\ outcome[1] = "failed"
    /\ list_loadable
    /\ arguments[1].quality = BatchQuality
    /\ progress[1] = NoProgress
    /\ metadata
    /\ ~Readable(already_downloaded_csv)

\* C20: whenever no run is in progress, a metadata folder on disk comes
\* with an already_downloaded.csv that can be read and has its "Species"
\* column.
C20_MetadataFolderImpliesCheckpoint ==
    (Idle /\ metadata) => Readable(already_downloaded_csv)

\* ------------------------------------------------------- concurrent runs
\* Two interpreters run download_species_data on the same batch at the
\* same time; no kills.
Run(p) ==
    \/ download_species_data(p)
    \/ initialize_download_manager(p)
    \/ initialize_metadata(p)
    \/ copy_species_list(p)
    \/ create_already_downloaded(p)
    \/ write_empty_already_downloaded(p)
    \/ read_species_list(p)
    \/ filter_species_list(p)
    \/ for_species_name(p)
    \/ send_query(p)
    \/ download_all_recordings(p)
    \/ update_read(p)
    \/ update_open(p)
    \/ update_write(p)

NextConcurrent == \E p \in Procs : Run(p)

SpecConcurrent == Init /\ [][NextConcurrent]_vars

\* The positions between the read of already_downloaded.csv and the end of
\* its rewrite (lines 294-302).
Rewriting == {"update_open", "update_write"}

\* C18: an append is read-whole-file / add-row / rewrite-whole-file: the
\* rows a run writes are the rows it read earlier plus its species, and
\* they are not refreshed while another run changes the file in between.
C18_AppendIsReadModifyWrite ==
    [][\A p \in Procs :
          /\ (pc[p] = "update_read" /\ pc'[p] = "update_open") =>
                already_downloaded'[p] = Append(already_downloaded_csv.rows, species_name(p))
          /\ (pc[p] \in Rewriting /\ pc'[p] \in Rewriting) =>
                already_downloaded'[p] = already_downloaded[p]
          /\ (pc[p] = "update_write" /\ pc'[p] = "for_species_name") =>
                IsPrefix(already_downloaded[p], already_downloaded_csv'.rows)]_vars

\* Species i of run p and species j of run q are the same and both runs
\* have persisted it.
PersistedByBoth ==
    \E i \in 1..progress[1].persisted, j \in 1..progress[2].persisted :
        species_list[1][i] = species_list[2][j]

\* Both runs are in progress on a list without repeated names, one
\* checkpointed entry is gone from already_downloaded.csv, and one species
\* was persisted by both.
C18_Witness ==
    /\ DistinctNames
    /\ pc[1] # "idle" /\ pc[2] # "idle"
    /\ Readable(already_downloaded_csv)
    /\ checkpointed \ StoreNames(already_downloaded_csv) # {}
    /\ PersistedByBoth

\* C19, finite form: a run called with a valid quality and a loadable
\* species list fails only in the fetch or the persist step of a species,
\* so that once those failures and the kills stop the next run returns
\* normally with the whole list in already_downloaded.csv.
C19_ResumedRunFailsOnlyInFetchOrPersist ==
    (/\ Idle
     /\ outcome[1] = "failed"
     /\ arguments[1].quality \in {"A", "B", "C"}
     /\ list_loadable)
        => /\ progress[1].fetched >= 1
           /\ progress[1].appended = progress[1].fetched - 1

\* ------------------------------------------------ kills between steps
\* The process is killed between two statements, never while to_csv holds
\* already_downloaded.csv open.
KillBetweenSteps(p) ==
    /\ pc[p] \notin Writing
    /\ Kill(p)

NextBetweenSteps == Run(1) \/ KillBetweenSteps(1)

SpecBetweenSteps == Init /\ [][NextBetweenSteps]_vars

\* C21: with a species list of distinct names and kills only between
\* steps, the rows of already_downloaded.csv, in file order, are at every
\* moment a prefix of the species list.
C21_StoreIsPrefixOfList ==
    DistinctNames => IsPrefix(already_downloaded_csv.rows, species_list_csv)

\* After a run that was killed inside the loop, a later run returned with
\* the whole two-species list checkpointed in list order.
C21_Witness ==
    /\ Idle
    /\ DistinctNames
    /\ Len(species_list_csv) = 2
    /\ interrupted # {}
    /\ outcome[1] = "done"
    /\ already_downloaded_csv = FileOk(species_list_csv)

====
